---- MODULE Spec2Model ----
(***************************************************************************)
(* Model of the hazard-prioritisation survey (src/src/App.jsx).            *)
(*                                                                         *)
(* JavaScript strings that the code trims / upper-cases are modelled as    *)
(* sequences of one-character strings; identifiers and categories that the *)
(* code only compares are modelled as TLA+ strings.  Category names are    *)
(* written with an ASCII hyphen in place of the source's en dash.          *)
(***************************************************************************)
EXTENDS Integers, Sequences, FiniteSets, TLC

VARIABLES
    fixture,        \* which set of CSV files the server holds
    pc,             \* position of loadAll
    res,            \* state of the three required fetch promises
    expoRes,        \* state of the exposure fetch promise / its body read
    attrs,          \* loadAll local: parsed attributes
    haz,            \* loadAll local: parsed hazards
    weightMap,      \* loadAll local: relevance table under construction
    rowsRead,       \* loadAll local: score rows consumed by the forEach
    loading,        \* React state of App
    loadError,
    attributes,
    hazards,
    hazardWeights,
    answers,
    exposures,
    exposureTypes,
    index,
    profileKey,     \* React state of FinalResults
    exposureType,
    raw,            \* the scored list FinalResults renders (<<>> when unmounted)
    showTop10,
    expanded,
    download,       \* the rows of the last file exportCsv handed to the browser
    letterIn,       \* argument and result of a stand-alone letterToPriority call
    letterOut,
    profileIn,      \* the same for getProfileMultiplier
    profileOut,
    exposureIn,     \* the same for parseExposureCsv
    exposureOut,
    sliderValues,   \* slider variant: the value of each range input
    defaultWeights  \* slider variant: DEFAULT_WEIGHTS

loadVars   == <<pc, res, expoRes, attrs, haz, weightMap, rowsRead>>
appVars    == <<loading, loadError, attributes, hazards, hazardWeights,
                answers, exposures, exposureTypes, index>>
resultVars == <<profileKey, exposureType, raw>>
uiVars     == <<showTop10, expanded, download>>
letterVars == <<letterIn, letterOut>>
sliderVars == <<sliderValues, defaultWeights>>
callVars   == <<letterVars, profileIn, profileOut, exposureIn, exposureOut,
                sliderVars>>
vars       == <<fixture, loadVars, appVars, resultVars, uiVars, callVars>>

-----------------------------------------------------------------------------
(* Bounds of the model *)

\* longest string handed to a stand-alone letterToPriority call
MaxLetterLen == 3

\* most rows the generic hazard_attribute_scores_long.csv holds
MaxScoreRows == 2

-----------------------------------------------------------------------------
(* JavaScript values *)

\* a missing CSV field (row.x of an absent column)
Undefined == "<undefined>"

\* the same for fields modelled as character sequences
UndefinedChars == <<"<undefined>">>

\* x is falsy: !x
Falsy(x) == x = Undefined \/ x = ""

FalsyChars(s) == s = UndefinedChars \/ s = <<>>

EmptyObject == [k \in {} |-> 0]

Has(obj, k) == k \in DOMAIN obj

Put(obj, k, v) == [x \in (DOMAIN obj) \cup {k} |-> IF x = k THEN v ELSE obj[x]]

-----------------------------------------------------------------------------
(* String.prototype.trim / toUpperCase and String() *)

LowerCase == <<"a","b","c","d","e","f","g","h","i","j","k","l","m",
               "n","o","p","q","r","s","t","u","v","w","x","y","z">>

UpperCase == <<"A","B","C","D","E","F","G","H","I","J","K","L","M",
               "N","O","P","Q","R","S","T","U","V","W","X","Y","Z">>

WhiteSpace == {" ", "\t", "\n", "\r"}

ToUpperChar(c) ==
    IF \E i \in 1..Len(LowerCase) : LowerCase[i] = c
    THEN UpperCase[CHOOSE i \in 1..Len(LowerCase) : LowerCase[i] = c]
    ELSE c

ToUpperCase(s) == [i \in 1..Len(s) |-> ToUpperChar(s[i])]

RECURSIVE TrimStart(_)
TrimStart(s) ==
    IF s # <<>> /\ Head(s) \in WhiteSpace THEN TrimStart(Tail(s)) ELSE s

RECURSIVE TrimEnd(_)
TrimEnd(s) ==
    IF s # <<>> /\ s[Len(s)] \in WhiteSpace
    THEN TrimEnd(SubSeq(s, 1, Len(s) - 1))
    ELSE s

Trim(s) == TrimEnd(TrimStart(s))

\* String(v): undefined becomes the text "undefined", a string is itself
JsString(v) ==
    IF v = UndefinedChars
    THEN <<"u","n","d","e","f","i","n","e","d">>
    ELSE v

-----------------------------------------------------------------------------
(* letterToPriority *)

PriorityMap ==
    (<<"A">> :> 0) @@ (<<"B">> :> 1) @@ (<<"C">> :> 3) @@
    (<<"D">> :> 5) @@ (<<"E">> :> 5)

\* mutant: the input is not trimmed
letterToPriority_noTrim(letter) ==
    LET l == ToUpperCase(JsString(letter))
    IN  IF l \in DOMAIN PriorityMap THEN PriorityMap[l] ELSE 0

\* mutant: a linear A..E scale (C = 2, D = 3, E = 4)
letterToPriority_linear(letter) ==
    LET l == ToUpperCase(Trim(JsString(letter)))
        lin == (<<"A">> :> 0) @@ (<<"B">> :> 1) @@ (<<"C">> :> 2) @@
               (<<"D">> :> 3) @@ (<<"E">> :> 4)
    IN  IF l \in DOMAIN lin THEN lin[l] ELSE 0

letterToPriority(letter) ==
    LET l == ToUpperCase(Trim(JsString(letter)))
    IN  IF l \in DOMAIN PriorityMap THEN PriorityMap[l] ELSE 0

-----------------------------------------------------------------------------
(* PROFILES and getProfileMultiplier *)

PROFILES ==
    [ all |->
        [ categoryWeights  |-> EmptyObject,
          defaultForOthers |-> 1 ],
      people |->
        [ categoryWeights  |-> [c \in {"Hazard", "Risk context",
                                       "Impact - people", "Recovery"} |-> 1],
          defaultForOthers |-> 0 ],
      services |->
        [ categoryWeights  |-> [c \in {"Hazard", "Risk context",
                                       "Impact - services", "Recovery"} |-> 1],
          defaultForOthers |-> 0 ],
      economy_env |->
        [ categoryWeights  |-> [c \in {"Hazard", "Risk context",
                                       "Impact - economy", "Impact - env",
                                       "Recovery"} |-> 1],
          defaultForOthers |-> 0 ] ]

ProfileKeys == DOMAIN PROFILES

\* names every object literal inherits from Object.prototype: obj[name] is a
\* function (or an object), so it is neither undefined nor falsy
ObjectPrototype ==
    {"constructor", "toString", "valueOf", "hasOwnProperty", "__proto__"}

\* how a call completes: with a number, with an inherited member that is not
\* a number, or by throwing a TypeError
Number(n) == [type |-> "number", value |-> n]

Inherited == [type |-> "function"]

TypeError == [type |-> "TypeError"]

\* mutant: a category the profile does not list counts fully
getProfileMultiplier_keepOthers(key, category) ==
    IF key \notin DOMAIN PROFILES /\ key \in ObjectPrototype THEN TypeError
    ELSE LET profile == IF key \in DOMAIN PROFILES THEN PROFILES[key]
                        ELSE PROFILES["all"]
         IN  IF key = "all" THEN Number(1)
             ELSE IF category \in DOMAIN profile.categoryWeights
                  THEN Number(profile.categoryWeights[category])
                  ELSE Number(1)

\* PROFILES[profileKey] || PROFILES.all finds an inherited member for a key
\* of ObjectPrototype: its categoryWeights is undefined, and indexing it throws
getProfileMultiplier(key, category) ==
    IF key \notin DOMAIN PROFILES /\ key \in ObjectPrototype THEN TypeError
    ELSE LET profile == IF key \in DOMAIN PROFILES THEN PROFILES[key]
                        ELSE PROFILES["all"]
         IN  IF key = "all" THEN Number(1)
             ELSE IF category \in DOMAIN profile.categoryWeights
                  THEN Number(profile.categoryWeights[category])
                  ELSE IF category \in ObjectPrototype THEN Inherited
                  ELSE Number(profile.defaultForOthers)

-----------------------------------------------------------------------------
(* The CSV files the server holds.  Papa.parse(text, {header: true}).data  *)
(* is modelled as the sequence of row objects it yields; a field the row   *)
(* lacks is Undefined.                                                     *)

\* "visible = showTop10 ? raw.slice(0, 10) : raw"
TopN == 10

Fixtures == {"generic", "ranking", "many"}

\* the hazard codes of the many fixture: one more than the top-10 filter shows
ManyCodes == [i \in 1..(TopN + 1) |-> "H" \o ToString(i)]

AttrRow(id, attribute_id, category, text) ==
    [id |-> id, attribute_id |-> attribute_id, category |-> category,
     attribute_text |-> text]

HazRow(code, descr) == [HazardCode |-> code, HazardDescriptions |-> descr]

ScoreRow(h, a, l) == [hazard_id |-> h, attribute_id |-> a, score_letter |-> l]

\* the body of a response that is not the CSV asked for (an error page):
\* rows without any of the named columns
ErrorPageRows(blank) == <<blank>>

BlankAttrRow  == AttrRow(Undefined, Undefined, Undefined, Undefined)
BlankHazRow   == HazRow(Undefined, Undefined)
BlankScoreRow == ScoreRow(Undefined, Undefined, UndefinedChars)

\* attributes.csv: the rows of A3 and X1 lack attribute_text, so the attribute
\* table does not hold them
AttributeCsv(f) ==
    IF f = "generic"
    THEN << AttrRow("A1", Undefined, "Impact - people", "People affected"),
            AttrRow("A3", Undefined, "Recovery", ""),
            BlankAttrRow >>
    ELSE IF f = "ranking"
    THEN << AttrRow("A1", Undefined, "Hazard", "Likelihood"),
            AttrRow(Undefined, "A2", "Impact - people", "People affected"),
            AttrRow("X1", Undefined, "Recovery", ""),
            BlankAttrRow >>
    ELSE << AttrRow("A1", Undefined, "Impact - services", "Services lost"),
            AttrRow("A2", Undefined, "Recovery", "Time to recover") >>

HazardCsv(f) ==
    IF f = "generic"
    THEN << HazRow("H1", "Flood"), HazRow("H2", "Fire"),
            HazRow("H3", "Storm"), BlankHazRow >>
    ELSE IF f = "ranking"
    THEN << HazRow("H1", "Flood"), HazRow("H2", "Fire"),
            HazRow("", "no code"), HazRow("H3", "Storm") >>
    ELSE [i \in 1..Len(ManyCodes) |-> HazRow(ManyCodes[i], "Hazard " \o ToString(i))]

\* rows the generic hazard_attribute_scores_long.csv is made of
GenericScoreRows ==
    { ScoreRow(h, a, l) : h \in {"H1", "H2", "H3"}, a \in {"A1", "A3"},
                          l \in {<<"A">>, <<" ", "b">>, <<"C">>, <<"D">>} }
    \cup { ScoreRow(Undefined, "A1", <<"D">>),
           ScoreRow("H1", "", <<"D">>),
           ScoreRow("H1", "A1", UndefinedChars) }

\* the ranking fixture's score file: H3 is scored on nine attributes that
\* the attribute table does not hold
RankingScoreCsv ==
    << ScoreRow("H1", "A1", <<"B">>),
       ScoreRow("H2", "A2", <<"b", " ">>),
       ScoreRow("H3", "X1", <<"D">>), ScoreRow("H3", "X2", <<"E">>),
       ScoreRow("H3", "X3", <<"D">>), ScoreRow("H3", "X4", <<"E">>),
       ScoreRow("H3", "X5", <<"D">>), ScoreRow("H3", "X6", <<"e">>),
       ScoreRow("H3", "X7", <<"D">>), ScoreRow("H3", "X8", <<"E">>),
       ScoreRow("H3", "X9", <<"d">>), BlankScoreRow >>

\* the many fixture's score file: every hazard is scored on A1
ManyScoreCsv ==
    [i \in 1..Len(ManyCodes) |->
        ScoreRow(ManyCodes[i], "A1",
                 << <<"B">>, <<"C">>, <<"D">>, <<"A">> >>[((i - 1) % 4) + 1])]

\* exposure.csv: cells are keyed by <<prefix, level>>; HX is a code the hazard
\* table does not hold
ExposureCsv ==
    << [Code |-> "H1",
        cells |-> (<<"", 1>> :> "1") @@ (<<"Lands", 1>> :> "2") @@
                  (<<"Lands", 2>> :> "N/A") @@ (<<"Lands", 3>> :> "4")],
       [Code |-> "H2",
        cells |-> (<<"Lands", 2>> :> "3") @@ (<<"Personnel", 1>> :> "abc") @@
                  (<<"Personnel", 2>> :> "0") @@ (<<"Buildings", 5>> :> "")],
       [Code |-> "HX",
        cells |-> (<<"Lands", 5>> :> "9") @@ (<<"Personnel", 1>> :> "3")],
       [Code |-> Undefined, cells |-> EmptyObject] >>

\* the many fixture's exposure.csv
ManyExposureCsv ==
    << [Code |-> "H3", cells |-> (<<"Lands", 1>> :> "2")],
       [Code |-> "H8", cells |-> (<<"Lands", 2>> :> "3")] >>

ExposureFile(f) == IF f = "many" THEN ManyExposureCsv ELSE ExposureCsv

\* an exposure.csv body that is not the table (no Code column)
ExposureGarbage == << [Code |-> Undefined, cells |-> (<<"", 1>> :> "7")] >>

-----------------------------------------------------------------------------
(* loadAll: parsing the three required tables *)

\* x || y
OrElse(x, y) == IF Falsy(x) THEN y ELSE x

\* `ATTR_${i}` of the row position i (1-based)
AttrName(i) == <<"ATTR_1", "ATTR_2", "ATTR_3", "ATTR_4", "ATTR_5", "ATTR_6">>[i]

\* .filter((r) => r.text)
RECURSIVE FilterText(_)
FilterText(s) ==
    IF s = <<>> THEN <<>>
    ELSE IF ~Falsy(Head(s).text) THEN <<Head(s)>> \o FilterText(Tail(s))
         ELSE FilterText(Tail(s))

\* .filter((r) => r.id)
RECURSIVE FilterId(_)
FilterId(s) ==
    IF s = <<>> THEN <<>>
    ELSE IF ~Falsy(Head(s).id) THEN <<Head(s)>> \o FilterId(Tail(s))
         ELSE FilterId(Tail(s))

ParseAttributes(rows) ==
    FilterText([i \in 1..Len(rows) |->
                  [id       |-> OrElse(rows[i].id,
                                       OrElse(rows[i].attribute_id, AttrName(i))),
                   category |-> OrElse(rows[i].category, "Other"),
                   text     |-> rows[i].attribute_text]])

ParseHazards(rows) ==
    FilterId([i \in 1..Len(rows) |->
                [id   |-> rows[i].HazardCode,
                 code |-> rows[i].HazardCode,
                 name |-> rows[i].HazardDescriptions]])

\* weightMap[hazardId][attrId] = {letter, priority}: each hazard's object is
\* kept as the sequence of its entries in insertion order
SetEntry(entries, e) ==
    IF \E i \in 1..Len(entries) : entries[i].attrId = e.attrId
    THEN [i \in 1..Len(entries) |->
            IF entries[i].attrId = e.attrId THEN e ELSE entries[i]]
    ELSE Append(entries, e)

\* one iteration of scoreRows.forEach
AddScoreRow(wm, r) ==
    IF Falsy(r.hazard_id) \/ Falsy(r.attribute_id) \/ FalsyChars(r.score_letter)
    THEN wm
    ELSE LET letter   == ToUpperCase(Trim(JsString(r.score_letter)))
             priority == letterToPriority(letter)
             old      == IF Has(wm, r.hazard_id) THEN wm[r.hazard_id] ELSE <<>>
         IN  Put(wm, r.hazard_id,
                 SetEntry(old, [attrId |-> r.attribute_id,
                                letter |-> letter, priority |-> priority]))

RECURSIVE BuildWeightMap(_, _)
BuildWeightMap(wm, rows) ==
    IF rows = <<>> THEN wm
    ELSE BuildWeightMap(AddScoreRow(wm, Head(rows)), Tail(rows))

-----------------------------------------------------------------------------
(* parseExposureCsv *)

LEVELS == <<1, 2, 3, 4, 5>>

DigitStrings == <<"0", "1", "2", "3", "4", "5", "6", "7", "8", "9">>

\* parseFloat of a cell: <<n>> for a number, <<>> for NaN
ParseFloat(s) ==
    IF \E i \in 1..Len(DigitStrings) : DigitStrings[i] = s
    THEN <<(CHOOSE i \in 1..Len(DigitStrings) : DigitStrings[i] = s) - 1>>
    ELSE <<>>

\* the cell row[`${prefix}${lvl}`]
Cell(row, prefix, lvl) ==
    IF <<prefix, lvl>> \in DOMAIN row.cells THEN row.cells[<<prefix, lvl>>]
    ELSE Undefined

RECURSIVE WeightedFrom(_, _, _)
WeightedFrom(row, prefix, i) ==
    IF i > Len(LEVELS) THEN 0
    ELSE LET lvl == LEVELS[i]
             c   == Cell(row, prefix, lvl)
             n   == ParseFloat(c)
         IN  (IF c = Undefined \/ c = "" \/ c = "N/A" \/ n = <<>>
              THEN 0 ELSE lvl * n[1])
             + WeightedFrom(row, prefix, i + 1)

weightedIndex(row, prefix) == WeightedFrom(row, prefix, 1)

\* the metrics in the order the code tries them: <<name, column prefix>>
ExposureMetrics ==
    << <<"All assets", "">>, <<"Lands", "Lands">>,
       <<"Personnel", "Personnel">>, <<"Buildings", "Buildings">> >>

\* mutant: an index of 0 is stored as well
RowMetrics_zero(row) ==
    [m \in {ExposureMetrics[i][1] : i \in 1..Len(ExposureMetrics)} |->
        LET i == CHOOSE j \in 1..Len(ExposureMetrics) : ExposureMetrics[j][1] = m
        IN  weightedIndex(row, ExposureMetrics[i][2])]

\* the metrics object of one row
RowMetrics(row) ==
    LET present == {i \in 1..Len(ExposureMetrics) :
                        weightedIndex(row, ExposureMetrics[i][2]) > 0}
    IN  [m \in {ExposureMetrics[i][1] : i \in present} |->
            LET i == CHOOSE j \in present : ExposureMetrics[j][1] = m
            IN  weightedIndex(row, ExposureMetrics[i][2])]

\* exposureTypesSet.add of each metric of the row, in the code's order
RECURSIVE AddTypes(_, _, _)
AddTypes(types, row, i) ==
    IF i > Len(ExposureMetrics) THEN types
    ELSE LET m == ExposureMetrics[i][1]
         IN  AddTypes(IF weightedIndex(row, ExposureMetrics[i][2]) > 0
                         /\ ~(\E j \in 1..Len(types) : types[j] = m)
                      THEN Append(types, m) ELSE types,
                      row, i + 1)

RECURSIVE ExposureRows(_, _)
ExposureRows(acc, rows) ==
    IF rows = <<>> THEN acc
    ELSE LET row == Head(rows)
             metrics == RowMetrics(row)
         IN  IF Falsy(row.Code) THEN ExposureRows(acc, Tail(rows))
             ELSE ExposureRows(
                    [exposureMap   |-> IF DOMAIN metrics = {} THEN acc.exposureMap
                                       ELSE Put(acc.exposureMap, row.Code, metrics),
                     exposureTypes |-> AddTypes(acc.exposureTypes, row, 1)],
                    Tail(rows))

parseExposureCsv(rows) ==
    ExposureRows([exposureMap |-> EmptyObject, exposureTypes |-> <<>>], rows)

-----------------------------------------------------------------------------
(* FinalResults: the scoring engine.  Scores are computed on exact         *)
(* rationals: norm is the pair <<rawScore * 100, max>>.                    *)

Null == "<null>"

\* mutant: an unanswered attribute counts as 0
UserScore_zero(ans, attrId) == IF Has(ans, attrId) THEN ans[attrId] ELSE 0

\* answers[attrId] ?? 3
UserScore(ans, attrId) == IF Has(ans, attrId) THEN ans[attrId] ELSE 3

\* attributes.find((a) => a.id === attrId)?.category || "Other"
CategoryOf(attribs, attrId) ==
    IF \E i \in 1..Len(attribs) : attribs[i].id = attrId
    THEN LET first == CHOOSE i \in 1..Len(attribs) :
                        /\ attribs[i].id = attrId
                        /\ \A j \in 1..(i - 1) : attribs[j].id # attrId
         IN  OrElse(attribs[first].category, "Other")
    ELSE "Other"

\* the body of Object.entries(weights).forEach, from entry i on
RECURSIVE TotalFrom(_, _, _, _, _)
TotalFrom(entries, i, ans, attribs, key) ==
    IF i > Len(entries) THEN 0
    ELSE LET info == entries[i]
             hzPriority == info.priority
             userScore == UserScore(ans, info.attrId)
             category == CategoryOf(attribs, info.attrId)
             profileMultiplier == getProfileMultiplier(key, category)
         IN  (IF profileMultiplier = Number(0) THEN 0
              ELSE hzPriority * userScore * profileMultiplier.value)
             + TotalFrom(entries, i + 1, ans, attribs, key)

\* hazardWeights[h.id] || {}
WeightsOf(hw, id) == IF Has(hw, id) THEN hw[id] ELSE <<>>

RawScores(hzs, ans, hw, attribs, key) ==
    [i \in 1..Len(hzs) |->
        [id |-> hzs[i].id, code |-> hzs[i].code, name |-> hzs[i].name,
         rawScore |-> TotalFrom(WeightsOf(hw, hzs[i].id), 1, ans, attribs, key)]]

RECURSIVE MaxFrom(_, _, _)
MaxFrom(s, i, m) ==
    IF i > Len(s) THEN m
    ELSE MaxFrom(s, i + 1, IF s[i].rawScore > m THEN s[i].rawScore ELSE m)

\* mutant: the first hazard's score is taken for the maximum
MaxRawScore_first(s) ==
    IF s # <<>> /\ s[1].rawScore > 1 THEN s[1].rawScore ELSE 1

\* Math.max(...raw.map((h) => h.rawScore), 1)
MaxRawScore(s) == MaxFrom(s, 1, 1)

\* Math.round of the non-negative rational num / den
MathRound(num, den) == (2 * num + den) \div (2 * den)

\* the band of norm = num / den
BandOfNorm(num, den) ==
    IF num >= 67 * den THEN "High"
    ELSE IF num >= 34 * den THEN "Medium"
    ELSE "Low"

Normalise(s) ==
    LET max == MaxRawScore(s)
    IN  [i \in 1..Len(s) |->
            [id |-> s[i].id, code |-> s[i].code, name |-> s[i].name,
             rawScore   |-> s[i].rawScore,
             normalised |-> MathRound(s[i].rawScore * 100, max),
             band       |-> BandOfNorm(s[i].rawScore * 100, max)]]

\* exposureTypes.length ? exposureType || exposureTypes[0] : null
ActiveExposureType(types, chosen) ==
    IF Len(types) > 0 THEN OrElse(chosen, types[1]) ELSE Null

\* typeof exposures[id][type] === "number"
HasExposure(expo, id, type) == Has(expo, id) /\ Has(expo[id], type)

RECURSIVE MaxExposureFrom(_, _, _, _, _)
MaxExposureFrom(s, i, expo, type, m) ==
    IF i > Len(s) THEN m
    ELSE MaxExposureFrom(s, i + 1, expo, type,
            IF HasExposure(expo, s[i].id, type) /\ expo[s[i].id][type] > m
            THEN expo[s[i].id][type] ELSE m)

\* mutant: the maximum is taken over every row of exposure.csv
MaxExposure_allRows(s, expo, type) ==
    IF type = Null THEN 0
    ELSE LET vals == {expo[c][type] : c \in {x \in DOMAIN expo : Has(expo[x], type)}}
         IN  IF vals = {} THEN 0 ELSE CHOOSE v \in vals : \A w \in vals : w <= v

MaxExposure(s, expo, type) ==
    IF type = Null THEN 0 ELSE MaxExposureFrom(s, 1, expo, type, 0)

\* exposureRaw is <<v>> or <<>> (null); exposureNorm is the rational
\* <<v * 100, maxExposure>> or <<>> (null)
AttachExposure(s, expo, type) ==
    LET maxExposure == MaxExposure(s, expo, type)
        hasExposure == type # Null /\ maxExposure > 0
    IN  [i \in 1..Len(s) |->
            LET h == s[i]
                on == hasExposure /\ HasExposure(expo, h.id, type)
            IN  [id |-> h.id, code |-> h.code, name |-> h.name,
                 rawScore |-> h.rawScore, normalised |-> h.normalised,
                 band |-> h.band,
                 exposureRaw  |-> IF on THEN <<expo[h.id][type]>> ELSE <<>>,
                 exposureNorm |-> IF on THEN <<expo[h.id][type] * 100, maxExposure>>
                                  ELSE <<>>]]

\* raw.sort((a, b) => b.normalised - a.normalised): a stable sort, so x goes
\* behind every element that does not compare after it
RECURSIVE InsertSorted(_, _)
InsertSorted(sorted, x) ==
    IF sorted = <<>> THEN <<x>>
    ELSE IF Head(sorted).normalised >= x.normalised
         THEN <<Head(sorted)>> \o InsertSorted(Tail(sorted), x)
         ELSE <<x>> \o sorted

RECURSIVE SortFrom(_, _, _)
SortFrom(s, i, acc) ==
    IF i > Len(s) THEN acc ELSE SortFrom(s, i + 1, InsertSorted(acc, s[i]))

\* mutant: the list is left in hazard-table order
SortByNormalised_none(s) == s

\* mutant: an unstable sort that puts equal elements in reverse order
RECURSIVE InsertUnstable(_, _)
InsertUnstable(sorted, x) ==
    IF sorted = <<>> THEN <<x>>
    ELSE IF Head(sorted).normalised > x.normalised
         THEN <<Head(sorted)>> \o InsertUnstable(Tail(sorted), x)
         ELSE <<x>> \o sorted

RECURSIVE SortUnstableFrom(_, _, _)
SortUnstableFrom(s, i, acc) ==
    IF i > Len(s) THEN acc ELSE SortUnstableFrom(s, i + 1, InsertUnstable(acc, s[i]))

SortByNormalised_unstable(s) == SortUnstableFrom(s, 1, <<>>)

SortByNormalised(s) == SortFrom(s, 1, <<>>)

\* the list FinalResults renders
FinalResults(attribs, hzs, ans, hw, expo, types, key, chosen) ==
    SortByNormalised(
        AttachExposure(Normalise(RawScores(hzs, ans, hw, attribs, key)),
                       expo, ActiveExposureType(types, chosen)))

\* hasExposure of the render that made the sorted list s
HasExposureAxis(s, expo, types, chosen) ==
    /\ ActiveExposureType(types, chosen) # Null
    /\ MaxExposure(s, expo, ActiveExposureType(types, chosen)) > 0

\* showTop10 ? raw.slice(0, 10) : raw
Visible(s, top10) ==
    IF top10 THEN SubSeq(s, 1, IF Len(s) < TopN THEN Len(s) ELSE TopN) ELSE s

\* `"${name}"` with the quotes of name doubled (no name of the fixtures
\* holds a quote)
Quoted(name) == "\"" \o name \o "\""

\* the file exportCsv builds from list s: the header cells and one record of
\* cells per element of s; exposure is <<>> when the file has no such column
ExportFile(s, hasExposure, type) ==
    [header |-> <<"Rank", "Hazard Code", "Hazard Name", "Score", "Band">>
                \o (IF hasExposure THEN <<"Exposure (" \o type \o ")">>
                    ELSE <<>>),
     rows   |-> [i \in 1..Len(s) |->
                   [rank  |-> i,
                    code  |-> OrElse(s[i].code, OrElse(s[i].id, "")),
                    name  |-> Quoted(OrElse(s[i].name, "")),
                    score |-> s[i].normalised,
                    band  |-> s[i].band,
                    exposure |-> IF ~hasExposure THEN <<>>
                                 ELSE IF s[i].exposureRaw # <<>>
                                      THEN <<ToString(s[i].exposureRaw[1])>>
                                      ELSE <<"">>]]]

-----------------------------------------------------------------------------
(* HazardBreakdown: entries is hazardWeights[h.id] *)

\* attributes.find((a) => a.id === attrId), as a sequence of zero or one
FindAttr(attribs, attrId) ==
    IF \E i \in 1..Len(attribs) : attribs[i].id = attrId
    THEN <<attribs[CHOOSE i \in 1..Len(attribs) :
                      /\ attribs[i].id = attrId
                      /\ \A j \in 1..(i - 1) : attribs[j].id # attrId]>>
    ELSE <<>>

\* mutant: importance and priority are added
Contribution_sum(userImp, hzPriority) == userImp + hzPriority

Contribution(userImp, hzPriority) == userImp * hzPriority

BreakdownRows(attribs, ans, entries) ==
    [i \in 1..Len(entries) |->
        LET attr == FindAttr(attribs, entries[i].attrId)
            userImp == UserScore(ans, entries[i].attrId)
        IN  [attrId    |-> entries[i].attrId,
             attribute |-> IF attr = <<>> THEN entries[i].attrId
                           ELSE OrElse(attr[1].text, entries[i].attrId),
             category  |-> IF attr = <<>> THEN ""
                           ELSE OrElse(attr[1].category, ""),
             userImp   |-> userImp,
             hazardScoreNum    |-> entries[i].priority,
             hazardScoreLetter |-> entries[i].letter,
             contribution |-> Contribution(userImp, entries[i].priority)]]

\* rows.sort((a, b) => b.contribution - a.contribution), a stable sort
RECURSIVE InsertByContribution(_, _)
InsertByContribution(sorted, x) ==
    IF sorted = <<>> THEN <<x>>
    ELSE IF Head(sorted).contribution >= x.contribution
         THEN <<Head(sorted)>> \o InsertByContribution(Tail(sorted), x)
         ELSE <<x>> \o sorted

RECURSIVE SortByContributionFrom(_, _, _)
SortByContributionFrom(s, i, acc) ==
    IF i > Len(s) THEN acc
    ELSE SortByContributionFrom(s, i + 1, InsertByContribution(acc, s[i]))

\* the rows of the table; none when the hazard has no entry in hazardWeights
HazardBreakdown(attribs, ans, entries) ==
    SortByContributionFrom(BreakdownRows(attribs, ans, entries), 1, <<>>)

-----------------------------------------------------------------------------
(* What App renders *)

Screen ==
    IF loading THEN "loading"
    ELSE IF loadError # "" THEN "error"
    ELSE IF index >= Len(attributes) THEN "results"
    ELSE "question"

\* the scored list of the FinalResults that is mounted, if one is
Render(ld, err, attribs, hzs, ans, hw, expo, types, idx, key, chosen) ==
    IF ~ld /\ err = "" /\ idx >= Len(attribs)
    THEN FinalResults(attribs, hzs, ans, hw, expo, types, key, chosen)
    ELSE <<>>

-----------------------------------------------------------------------------
(* loadAll *)

Required == {"attributes", "hazards", "scores"}

\* a fetch promise is pending, fulfilled with a response that is ok or not,
\* rejected, or never settles
FetchOutcomes == {"ok", "notok", "rejected", "hung"}

LoadErrorText == "Could not load one or more CSV files."

\* FinalResults is not mounted and nothing was exported
NoUi ==
    /\ showTop10 = FALSE
    /\ expanded = EmptyObject
    /\ download = <<>>

\* no stand-alone call is in progress and the slider variant is not loaded
NoLetterCall == letterIn = <<>> /\ letterOut = <<>>

NoProfileCall == profileIn = <<>> /\ profileOut = <<>>

NoExposureCall == exposureIn = <<>> /\ exposureOut = <<>>

NoSliders == sliderValues = EmptyObject /\ defaultWeights = EmptyObject

NoCalls == NoLetterCall /\ NoProfileCall /\ NoExposureCall /\ NoSliders

InitLoad ==
    /\ fixture \in Fixtures
    /\ pc = "fetch"
    /\ res = [t \in Required |-> "pending"]
    /\ expoRes = "idle"
    /\ attrs = <<>>
    /\ haz = <<>>
    /\ weightMap = EmptyObject
    /\ rowsRead = 0
    /\ loading = TRUE
    /\ loadError = ""
    /\ attributes = <<>>
    /\ hazards = <<>>
    /\ hazardWeights = EmptyObject
    /\ answers = EmptyObject
    /\ exposures = EmptyObject
    /\ exposureTypes = <<>>
    /\ index = 0
    /\ profileKey = "all"
    /\ exposureType = ""
    /\ raw = <<>>
    /\ NoUi
    /\ NoCalls

\* one of the three fetches settles
FetchSettles(t, outcome) ==
    /\ pc = "fetch"
    /\ res[t] = "pending"
    /\ res' = [res EXCEPT ![t] = outcome]
    /\ UNCHANGED <<fixture, pc, expoRes, attrs, haz, weightMap, rowsRead,
                   appVars, resultVars, uiVars, callVars>>

\* the outer catch: setLoadError, setLoading(false)
Caught ==
    /\ loadError' = LoadErrorText
    /\ loading' = FALSE
    /\ pc' = "done"
    /\ UNCHANGED <<fixture, res, expoRes, attrs, haz, weightMap, rowsRead,
                   attributes, hazards, hazardWeights, answers, exposures,
                   exposureTypes, index, resultVars, uiVars, callVars>>

\* await Promise.all([fetch, fetch, fetch]) rejects
FetchRejected ==
    /\ pc = "fetch"
    /\ \E t \in Required : res[t] = "rejected"
    /\ Caught

\* await Promise.all([fetch, fetch, fetch]) resolves: the bodies are read
FetchResolved ==
    /\ pc = "fetch"
    /\ \A t \in Required : res[t] \in {"ok", "notok"}
    /\ pc' = "text"
    /\ UNCHANGED <<fixture, res, expoRes, attrs, haz, weightMap, rowsRead,
                   appVars, resultVars, uiVars, callVars>>

\* a text() promise rejects
TextRejected ==
    /\ pc = "text"
    /\ Caught

\* what Papa.parse yields for the body of response t
AttributeRows == IF res["attributes"] = "ok" THEN AttributeCsv(fixture)
                 ELSE ErrorPageRows(BlankAttrRow)

HazardRows == IF res["hazards"] = "ok" THEN HazardCsv(fixture)
              ELSE ErrorPageRows(BlankHazRow)

\* the score file is a fixed sequence of rows, or (the generic file) any
\* sequence of at most MaxScoreRows rows, drawn row by row
ScoreFileFixed == res["scores"] # "ok" \/ fixture # "generic"

ScoreFile == IF res["scores"] # "ok" THEN ErrorPageRows(BlankScoreRow)
             ELSE IF fixture = "many" THEN ManyScoreCsv
             ELSE RankingScoreCsv

NextScoreRows ==
    IF ScoreFileFixed
    THEN IF rowsRead < Len(ScoreFile) THEN {ScoreFile[rowsRead + 1]} ELSE {}
    ELSE IF rowsRead < MaxScoreRows THEN GenericScoreRows ELSE {}

EndOfScoreFile == ScoreFileFixed => rowsRead = Len(ScoreFile)

\* the texts resolve; the attribute and hazard tables are parsed
TextResolved ==
    /\ pc = "text"
    /\ attrs' = ParseAttributes(AttributeRows)
    /\ haz' = ParseHazards(HazardRows)
    /\ weightMap' = EmptyObject
    /\ rowsRead' = 0
    /\ pc' = "rows"
    /\ UNCHANGED <<fixture, res, expoRes, appVars, resultVars, uiVars, callVars>>

\* one iteration of scoreRows.forEach
ScoreRowStep ==
    /\ pc = "rows"
    /\ \E r \in NextScoreRows : weightMap' = AddScoreRow(weightMap, r)
    /\ rowsRead' = rowsRead + 1
    /\ UNCHANGED <<fixture, pc, res, expoRes, attrs, haz,
                   appVars, resultVars, uiVars, callVars>>

\* the forEach ends and exposure.csv is fetched
ScoreRowsDone ==
    /\ pc = "rows"
    /\ EndOfScoreFile
    /\ pc' = "expoFetch"
    /\ expoRes' = "pending"
    /\ UNCHANGED <<fixture, res, attrs, haz, weightMap, rowsRead,
                   appVars, resultVars, uiVars, callVars>>

ExpoFetchSettles(outcome) ==
    /\ pc = "expoFetch"
    /\ expoRes = "pending"
    /\ expoRes' = outcome
    /\ UNCHANGED <<fixture, pc, res, attrs, haz, weightMap, rowsRead,
                   appVars, resultVars, uiVars, callVars>>

\* the six setters that end the try block, and the render that follows
Commit(exposureMap, exposureTypesLocal) ==
    /\ attributes' = attrs
    /\ hazards' = haz
    /\ hazardWeights' = weightMap
    /\ exposures' = exposureMap
    /\ exposureTypes' = exposureTypesLocal
    /\ loading' = FALSE
    /\ pc' = "done"
    /\ raw' = Render(FALSE, loadError, attrs, haz, answers, weightMap,
                     exposureMap, exposureTypesLocal, index, profileKey,
                     exposureType)
    /\ UNCHANGED <<fixture, res, attrs, haz, weightMap, rowsRead, loadError,
                   answers, index, profileKey, exposureType, uiVars, callVars>>

\* expoRes.ok is false: the exposure block is skipped
ExpoNotOk ==
    /\ pc = "expoFetch"
    /\ expoRes = "notok"
    /\ UNCHANGED expoRes
    /\ Commit(EmptyObject, <<>>)

\* mutant: the exposure fetch is awaited outside the inner try, so its
\* rejection reaches the outer catch
ExpoRejected_fatal ==
    /\ pc = "expoFetch"
    /\ expoRes = "rejected"
    /\ Caught

\* the exposure fetch rejects: the inner catch warns and goes on
ExpoRejected ==
    /\ pc = "expoFetch"
    /\ expoRes = "rejected"
    /\ UNCHANGED expoRes
    /\ Commit(EmptyObject, <<>>)

\* expoRes.ok: the body is read
ExpoOk ==
    /\ pc = "expoFetch"
    /\ expoRes = "ok"
    /\ pc' = "expoText"
    /\ UNCHANGED <<fixture, res, expoRes, attrs, haz, weightMap, rowsRead,
                   appVars, resultVars, uiVars, callVars>>

\* expoRes.text() rejects: the inner catch warns and goes on
ExpoTextRejected ==
    /\ pc = "expoText"
    /\ expoRes' = "text_rejected"
    /\ Commit(EmptyObject, <<>>)

\* expoRes.text() resolves with the table, or with a body that is not it
ExpoTextResolved ==
    /\ pc = "expoText"
    /\ \E body \in {"body_csv", "body_garbage"} :
          LET parsed == parseExposureCsv(IF body = "body_csv"
                                         THEN ExposureFile(fixture)
                                         ELSE ExposureGarbage)
          IN  /\ expoRes' = body
              /\ Commit(parsed.exposureMap, parsed.exposureTypes)

NextLoad ==
    \/ \E t \in Required, o \in FetchOutcomes : FetchSettles(t, o)
    \/ FetchRejected
    \/ FetchResolved
    \/ TextRejected
    \/ TextResolved
    \/ ScoreRowStep
    \/ ScoreRowsDone
    \/ \E o \in FetchOutcomes : ExpoFetchSettles(o)
    \/ ExpoNotOk
    \/ ExpoRejected
    \/ ExpoOk
    \/ ExpoTextRejected
    \/ ExpoTextResolved

SpecLoad == InitLoad /\ [][NextLoad]_vars

-----------------------------------------------------------------------------
(* The survey and the results screen, from the states loadAll commits *)

\* the values of the radio buttons
SCALE_OPTIONS == <<1, 2, 3, 4, 5>>

ScoreFiles(f) ==
    IF f = "ranking" THEN {RankingScoreCsv}
    ELSE IF f = "many" THEN {ManyScoreCsv}
    ELSE UNION {[1..n -> GenericScoreRows] : n \in 0..MaxScoreRows}

\* the relevance tables loadAll builds from the score files
WeightMaps(f) == {BuildWeightMap(EmptyObject, rows) : rows \in ScoreFiles(f)}

\* what loadAll leaves of exposure.csv: nothing, or (ranking and many
\* fixtures) the parsed table
ExposureLoads(f) ==
    { [res |-> "notok",
       parsed |-> [exposureMap |-> EmptyObject, exposureTypes |-> <<>>]] }
    \cup IF f # "generic"
         THEN {[res |-> "body_csv",
                parsed |-> parseExposureCsv(ExposureFile(f))]}
         ELSE {}

InitLoaded ==
    /\ fixture \in Fixtures
    /\ pc = "done"
    /\ res \in [Required -> {"ok"}]
           \cup {[t \in Required |-> IF t = "attributes" THEN "notok" ELSE "ok"]}
    /\ \E e \in ExposureLoads(fixture) :
          /\ expoRes = e.res
          /\ exposures = e.parsed.exposureMap
          /\ exposureTypes = e.parsed.exposureTypes
    /\ attrs = ParseAttributes(AttributeRows)
    /\ haz = ParseHazards(HazardRows)
    /\ weightMap \in WeightMaps(fixture)
    /\ rowsRead = IF fixture = "generic" THEN 0 ELSE Len(ScoreFile)
    /\ loading = FALSE
    /\ loadError = ""
    /\ attributes = attrs
    /\ hazards = haz
    /\ hazardWeights = weightMap
    /\ answers = EmptyObject
    /\ index = 0
    /\ profileKey = "all"
    /\ exposureType = ""
    /\ raw = Render(loading, loadError, attributes, hazards, answers,
                    hazardWeights, exposures, exposureTypes, index,
                    profileKey, exposureType)
    /\ NoUi
    /\ NoCalls

total == Len(attributes)

current == attributes[index + 1]

\* the re-render that follows a state change
Rerender ==
    raw' = Render(loading', loadError', attributes', hazards', answers',
                  hazardWeights', exposures', exposureTypes', index',
                  profileKey', exposureType')

\* QuestionScreen: a radio button of the current attribute is chosen
setImportance(attrId, value) ==
    /\ Screen = "question"
    /\ attrId = current.id
    /\ answers' = Put(answers, attrId, value)
    /\ UNCHANGED <<fixture, loadVars, loading, loadError, attributes, hazards,
                   hazardWeights, exposures, exposureTypes, index,
                   profileKey, exposureType, uiVars, callVars>>
    /\ Rerender

\* mutant: next() records the default over an answer already given
next_always3 ==
    /\ Screen = "question"
    /\ answers' = Put(answers, current.id, 3)
    /\ index' = IF index < total - 1 THEN index + 1 ELSE total
    /\ UNCHANGED <<fixture, loadVars, loading, loadError, attributes, hazards,
                   hazardWeights, exposures, exposureTypes,
                   profileKey, exposureType, uiVars, callVars>>
    /\ Rerender

\* mutant: next() moves on without recording the default
next_noDefault ==
    /\ Screen = "question"
    /\ index' = IF index < total - 1 THEN index + 1 ELSE total
    /\ UNCHANGED <<fixture, loadVars, loading, loadError, attributes, hazards,
                   hazardWeights, answers, exposures, exposureTypes,
                   profileKey, exposureType, uiVars, callVars>>
    /\ Rerender

next ==
    /\ Screen = "question"
    /\ answers' = IF ~Has(answers, current.id) THEN Put(answers, current.id, 3)
                  ELSE answers
    /\ index' = IF index < total - 1 THEN index + 1 ELSE total
    /\ UNCHANGED <<fixture, loadVars, loading, loadError, attributes, hazards,
                   hazardWeights, exposures, exposureTypes,
                   profileKey, exposureType, uiVars, callVars>>
    /\ Rerender

back ==
    /\ Screen = "question"
    /\ index > 0
    /\ index' = index - 1
    /\ UNCHANGED <<fixture, loadVars, loading, loadError, attributes, hazards,
                   hazardWeights, answers, exposures, exposureTypes,
                   profileKey, exposureType, uiVars, callVars>>
    /\ Rerender

\* FinalResults is unmounted, and its state lost, unless there is no question
restart ==
    /\ Screen = "results"
    /\ answers' = EmptyObject
    /\ index' = 0
    /\ profileKey' = IF total > 0 THEN "all" ELSE profileKey
    /\ exposureType' = IF total > 0 THEN "" ELSE exposureType
    /\ showTop10' = IF total > 0 THEN FALSE ELSE showTop10
    /\ expanded' = IF total > 0 THEN EmptyObject ELSE expanded
    /\ UNCHANGED <<fixture, loadVars, loading, loadError, attributes, hazards,
                   hazardWeights, exposures, exposureTypes, download, callVars>>
    /\ Rerender

\* mutant: selecting a profile starts the answers afresh
setProfileKey_clearAnswers(key) ==
    /\ Screen = "results"
    /\ profileKey' = key
    /\ answers' = EmptyObject
    /\ UNCHANGED <<fixture, loadVars, loading, loadError, attributes, hazards,
                   hazardWeights, exposures, exposureTypes, index,
                   exposureType, uiVars, callVars>>
    /\ Rerender

setProfileKey(key) ==
    /\ Screen = "results"
    /\ profileKey' = key
    /\ UNCHANGED <<fixture, loadVars, appVars, exposureType, uiVars, callVars>>
    /\ Rerender

setExposureType(t) ==
    /\ Screen = "results"
    /\ \E i \in 1..Len(exposureTypes) : exposureTypes[i] = t
    /\ exposureType' = t
    /\ UNCHANGED <<fixture, loadVars, appVars, profileKey, uiVars, callVars>>
    /\ Rerender

\* the checkbox "Show top 10 only"
setShowTop10 ==
    /\ Screen = "results"
    /\ showTop10' = ~showTop10
    /\ UNCHANGED <<fixture, loadVars, appVars, profileKey, exposureType,
                   expanded, download, callVars>>
    /\ Rerender

\* the button under a hazard of the visible list
toggleExpand(id) ==
    /\ Screen = "results"
    /\ \E i \in 1..Len(Visible(raw, showTop10)) :
          Visible(raw, showTop10)[i].id = id
    /\ expanded' = Put(expanded, id, ~(Has(expanded, id) /\ expanded[id]))
    /\ UNCHANGED <<fixture, loadVars, appVars, profileKey, exposureType,
                   showTop10, download, callVars>>
    /\ Rerender

\* mutant: the file is built from the list on screen
exportCsv_visible ==
    /\ Screen = "results"
    /\ download' = <<ExportFile(Visible(raw, showTop10),
                                HasExposureAxis(raw, exposures, exposureTypes,
                                                exposureType),
                                ActiveExposureType(exposureTypes, exposureType))>>
    /\ UNCHANGED <<fixture, loadVars, appVars, resultVars, showTop10, expanded,
                   callVars>>

\* the button "Download CSV (all hazards)"
exportCsv ==
    /\ Screen = "results"
    /\ download' = <<ExportFile(raw,
                                HasExposureAxis(raw, exposures, exposureTypes,
                                                exposureType),
                                ActiveExposureType(exposureTypes, exposureType))>>
    /\ UNCHANGED <<fixture, loadVars, appVars, resultVars, showTop10, expanded,
                   callVars>>

Next ==
    \/ \E i \in 1..Len(attributes), v \in 1..Len(SCALE_OPTIONS) :
          setImportance(attributes[i].id, SCALE_OPTIONS[v])
    \/ next
    \/ back
    \/ restart
    \/ \E key \in ProfileKeys : setProfileKey(key)
    \/ \E t \in {"All assets", "Lands", "Personnel", "Buildings"} :
          setExposureType(t)

Spec == InitLoaded /\ [][Next]_vars

\* the whole results screen, over the files of the many fixture
InitResults ==
    /\ InitLoaded
    /\ fixture = "many"
    /\ res = [t \in Required |-> "ok"]
    /\ expoRes = "body_csv"

\* the hazards whose breakdown button is pressed
ExpandIds == {"H8"}

NextResults ==
    \/ Next
    \/ setShowTop10
    \/ \E id \in ExpandIds : toggleExpand(id)
    \/ exportCsv

SpecResults == InitResults /\ [][NextResults]_vars

-----------------------------------------------------------------------------
(* letterToPriority on its own *)

LetterChars == {"A", "B", "C", "D", "E", "F", "b", "d", "e", " ", "\t"}

LetterInputs ==
    {UndefinedChars} \cup UNION {[1..n -> LetterChars] : n \in 0..MaxLetterLen}

InitLetter ==
    /\ fixture = "generic"
    /\ pc = "fetch"
    /\ res = [t \in Required |-> "pending"]
    /\ expoRes = "idle"
    /\ attrs = <<>>
    /\ haz = <<>>
    /\ weightMap = EmptyObject
    /\ rowsRead = 0
    /\ loading = TRUE
    /\ loadError = ""
    /\ attributes = <<>>
    /\ hazards = <<>>
    /\ hazardWeights = EmptyObject
    /\ answers = EmptyObject
    /\ exposures = EmptyObject
    /\ exposureTypes = <<>>
    /\ index = 0
    /\ profileKey = "all"
    /\ exposureType = ""
    /\ raw = <<>>
    /\ NoUi
    /\ letterIn \in LetterInputs
    /\ letterOut = <<>>
    /\ NoProfileCall
    /\ NoExposureCall
    /\ NoSliders

\* letterOut is <<>> before the call and <<priority>> after it
ApplyLetter ==
    /\ letterOut = <<>>
    /\ letterOut' = <<letterToPriority(letterIn)>>
    /\ UNCHANGED <<fixture, loadVars, appVars, resultVars, uiVars, letterIn,
                   profileIn, profileOut, exposureIn, exposureOut, sliderVars>>

NextLetter == ApplyLetter

SpecLetter == InitLetter /\ [][NextLetter]_vars

-----------------------------------------------------------------------------
(* getProfileMultiplier on its own *)

\* the categories the profiles list, and some they do not
ProfileCategories ==
    UNION {DOMAIN PROFILES[k].categoryWeights : k \in ProfileKeys}
    \cup {"Other", "", "Impact - PEOPLE", "constructor"}

ProfileInputs ==
    (ProfileKeys \cup {"", "ALL", "unknown", "constructor", "toString"})
    \X ProfileCategories

\* every variable of the app in its state before loadAll starts
AppIdle ==
    /\ fixture = "generic"
    /\ pc = "fetch"
    /\ res = [t \in Required |-> "pending"]
    /\ expoRes = "idle"
    /\ attrs = <<>>
    /\ haz = <<>>
    /\ weightMap = EmptyObject
    /\ rowsRead = 0
    /\ loading = TRUE
    /\ loadError = ""
    /\ attributes = <<>>
    /\ hazards = <<>>
    /\ hazardWeights = EmptyObject
    /\ answers = EmptyObject
    /\ exposures = EmptyObject
    /\ exposureTypes = <<>>
    /\ index = 0
    /\ profileKey = "all"
    /\ exposureType = ""
    /\ raw = <<>>
    /\ NoUi

InitProfile ==
    /\ AppIdle
    /\ NoLetterCall
    /\ profileIn \in ProfileInputs
    /\ profileOut = <<>>
    /\ NoExposureCall
    /\ NoSliders

\* profileOut is <<>> before the call and <<completion>> after it
ApplyProfile ==
    /\ profileIn # <<>>
    /\ profileOut = <<>>
    /\ profileOut' = <<getProfileMultiplier(profileIn[1], profileIn[2])>>
    /\ UNCHANGED <<fixture, loadVars, appVars, resultVars, uiVars, letterVars,
                   profileIn, exposureIn, exposureOut, sliderVars>>

NextProfile == ApplyProfile

SpecProfile == InitProfile /\ [][NextProfile]_vars

-----------------------------------------------------------------------------
(* parseExposureCsv on its own *)

\* most rows of an exposure.csv handed to a stand-alone parseExposureCsv call
MaxExposureRows == 1

\* a cell is absent (Undefined) or holds one of these texts
ExposureRowInputs ==
    { [Code  |-> code,
       cells |-> [k \in { <<"", 1>> : x \in {all} \ {Undefined} }
                       \cup { <<"Lands", 1>> : x \in {l1} \ {Undefined} }
                       \cup { <<"Lands", 3>> : x \in {l3} \ {Undefined} }
                  |-> IF k = <<"", 1>> THEN all
                      ELSE IF k = <<"Lands", 1>> THEN l1 ELSE l3]] :
        code \in {"H1", "H2", Undefined},
        all  \in {Undefined, "1"},
        l1   \in {Undefined, "", "N/A", "0", "2", "abc"},
        l3   \in {Undefined, "0", "4"} }

ExposureInputs == UNION {[1..n -> ExposureRowInputs] : n \in 1..MaxExposureRows}

InitExposure ==
    /\ AppIdle
    /\ NoLetterCall
    /\ NoProfileCall
    /\ exposureIn \in ExposureInputs
    /\ exposureOut = <<>>
    /\ NoSliders

\* exposureOut is <<>> before the call and <<{exposureMap, exposureTypes}>>
\* after it
ApplyExposure ==
    /\ exposureIn # <<>>
    /\ exposureOut = <<>>
    /\ exposureOut' = <<parseExposureCsv(exposureIn)>>
    /\ UNCHANGED <<fixture, loadVars, appVars, resultVars, uiVars, letterVars,
                   profileIn, profileOut, exposureIn, sliderVars>>

NextExposure == ApplyExposure

SpecExposure == InitExposure /\ [][NextExposure]_vars

-----------------------------------------------------------------------------
(* The slider variant (src/unnamed/part_000).  Its page, and with it the   *)
(* attributes of the range inputs, is not part of the source: the three    *)
(* inputs are taken to share min, max and a step of 1.                     *)

\* slider.name of the three range inputs: the keys of hazard.metrics
SliderNames == {"safety", "financial", "environmental"}

\* slider.min
SliderMin == 0

\* slider.max
MaxSliderValue == 4

SliderRange == SliderMin..MaxSliderValue

RECURSIVE SumOfWeights(_, _)
SumOfWeights(weights, names) ==
    IF names = {} THEN 0
    ELSE LET n == CHOOSE x \in names : TRUE
         IN  weights[n] + SumOfWeights(weights, names \ {n})

Min(a, b) == IF a < b THEN a ELSE b

Max(a, b) == IF a > b THEN a ELSE b

\* DEFAULT_WEIGHTS is read from the sliders when the script loads
InitSliders ==
    /\ AppIdle
    /\ NoLetterCall
    /\ NoProfileCall
    /\ NoExposureCall
    /\ sliderValues \in [SliderNames -> SliderRange]
    /\ defaultWeights = sliderValues

\* the user moves a slider
SliderInput(name, v) ==
    /\ sliderValues' = [sliderValues EXCEPT ![name] = v]
    /\ UNCHANGED <<fixture, loadVars, appVars, resultVars, uiVars, letterVars,
                   profileIn, profileOut, exposureIn, exposureOut,
                   defaultWeights>>

\* setWeights: slider.value = newWeights[slider.name]
setWeights(newWeights) ==
    /\ sliderValues' = [n \in SliderNames |->
                          IF n \in DOMAIN newWeights THEN newWeights[n]
                          ELSE sliderValues[n]]
    /\ UNCHANGED <<fixture, loadVars, appVars, resultVars, uiVars, letterVars,
                   profileIn, profileOut, exposureIn, exposureOut,
                   defaultWeights>>

\* mutant: a slider is never raised above its value
balanceWeights_capAtValue ==
    LET sum == SumOfWeights(sliderValues, SliderNames)
        average == MathRound(sum, Cardinality(SliderNames))
    IN  setWeights([n \in SliderNames |->
                      Min(sliderValues[n], Max(SliderMin, average))])

\* the click handler of "Balance weights"
balanceWeights ==
    LET sum == SumOfWeights(sliderValues, SliderNames)
        average == MathRound(sum, Cardinality(SliderNames))
    IN  setWeights([n \in SliderNames |->
                      Min(MaxSliderValue, Max(SliderMin, average))])

\* the click handler of "Reset to defaults"
resetWeights == setWeights(defaultWeights)

NextSliders ==
    \/ \E n \in SliderNames, v \in SliderRange : SliderInput(n, v)
    \/ balanceWeights
    \/ resetWeights

SpecSliders == InitSliders /\ [][NextSliders]_vars

-----------------------------------------------------------------------------
(* Properties *)

\* position of hazard id in the loaded hazard table
HazardPos(id) == CHOOSE k \in 1..Len(hazards) : hazards[k].id = id

\* the band the thresholds give an integer score
BandOfScore(n) == IF n >= 67 THEN "High" ELSE IF n >= 34 THEN "Medium" ELSE "Low"

\* C1: every scored hazard's band is the one its displayed integer score
\* `normalised` gives: High iff normalised >= 67, Medium iff 34 <= normalised
\* < 67, Low iff normalised < 34.
C1_BandFromNormalised ==
    \A i \in 1..Len(raw) : raw[i].band = BandOfScore(raw[i].normalised)

\* C2: every normalised is an integer in 0..100; if some hazard has a positive
\* rawScore the first hazard of the sorted list has normalised 100; if every
\* rawScore is 0 the divisor is 1 and every normalised is 0.
C2_NormalisedRange ==
    /\ \A i \in 1..Len(raw) : raw[i].normalised \in 0..100
    /\ (\E i \in 1..Len(raw) : raw[i].rawScore > 0) => raw[1].normalised = 100
    /\ (\A i \in 1..Len(raw) : raw[i].rawScore = 0) =>
          /\ MaxRawScore(raw) = 1
          /\ \A i \in 1..Len(raw) : raw[i].normalised = 0

C2_Witness ==
    /\ Len(raw) >= 3
    /\ raw[1].rawScore > 0
    /\ raw[1].normalised = 100
    /\ raw[2].normalised \in 1..99
    /\ raw[3].normalised = 0

\* the attributes with a relevance entry for hazard id
C3_EntryAttrs(id) ==
    IF id \in DOMAIN hazardWeights
    THEN {hazardWeights[id][k].attrId : k \in 1..Len(hazardWeights[id])}
    ELSE {}

C3_Priority(id, a) ==
    LET k == CHOOSE j \in 1..Len(hazardWeights[id]) : hazardWeights[id][j].attrId = a
    IN  hazardWeights[id][k].priority

C3_Answer(a) == IF a \in DOMAIN answers THEN answers[a] ELSE 3

C3_Category(a) ==
    IF \E k \in 1..Len(attributes) : attributes[k].id = a
    THEN (CHOOSE r \in {attributes[k] : k \in 1..Len(attributes)} : r.id = a).category
    ELSE "Other"

RECURSIVE C3_Sum(_, _)
C3_Sum(id, as) ==
    IF as = {} THEN 0
    ELSE LET a == CHOOSE x \in as : TRUE
         IN  C3_Priority(id, a) * C3_Answer(a)
               * getProfileMultiplier(profileKey, C3_Category(a)).value
             + C3_Sum(id, as \ {a})

\* C3: rawScore(h) is the sum, over exactly the attributes a with a relevance
\* entry for (h, a), of priority(h, a) * answer(a) * multiplier(profileKey,
\* category(a)), answer(a) being 3 when a has no recorded answer; a hazard
\* without any entry has rawScore 0, normalised 0 and band Low.
C3_RawScoreFormula ==
    \A i \in 1..Len(raw) :
        /\ raw[i].rawScore = C3_Sum(raw[i].id, C3_EntryAttrs(raw[i].id))
        /\ C3_EntryAttrs(raw[i].id) = {} =>
              /\ raw[i].rawScore = 0
              /\ raw[i].normalised = 0
              /\ raw[i].band = "Low"

C3_Witness ==
    /\ profileKey = "people"
    /\ \E i, j \in 1..Len(raw) :
          /\ Cardinality(C3_EntryAttrs(raw[i].id)) = 2
          /\ \E a \in C3_EntryAttrs(raw[i].id) : a \notin DOMAIN answers
          /\ \E a \in C3_EntryAttrs(raw[i].id) : a \in DOMAIN answers /\ answers[a] = 4
          /\ raw[i].rawScore = 4
          /\ C3_EntryAttrs(raw[j].id) = {}
          /\ raw[j].band = "Low"

\* C4: once one of the three required loads has failed (a rejected request or
\* an unsuccessful response), the app shows nothing but the loading or the
\* load-error screen, and ends in the load-error state.
C4_RequiredFailureIsError ==
    (\E t \in Required : res[t] \in {"notok", "rejected"}) =>
        /\ Screen \in {"loading", "error"}
        /\ pc = "done" => Screen = "error"

\* the exposure load failed: rejected fetch, unsuccessful response, rejected
\* body read, or a body that is not the table
C5_ExposureFailed ==
    expoRes \in {"notok", "rejected", "text_rejected", "body_garbage"}

\* C5: with the three required tables loaded, a failed exposure load ends in
\* the loaded state, never the load-error state: attributes, hazards and
\* relevance entries are as parsed, the exposure map and the exposure-type
\* catalogue are empty and no exposure metric is active.
C5_ExposureFailureSwallowed ==
    (pc = "done" /\ (\A t \in Required : res[t] = "ok") /\ C5_ExposureFailed) =>
        /\ ~loading
        /\ loadError = ""
        /\ attributes = ParseAttributes(AttributeCsv(fixture))
        /\ hazards = ParseHazards(HazardCsv(fixture))
        /\ hazardWeights = weightMap
        /\ fixture = "ranking" =>
              hazardWeights = BuildWeightMap(EmptyObject, RankingScoreCsv)
        /\ exposures = EmptyObject
        /\ exposureTypes = <<>>
        /\ ActiveExposureType(exposureTypes, exposureType) = Null

C5_Witness ==
    /\ pc = "done"
    /\ \A t \in Required : res[t] = "ok"
    /\ expoRes = "rejected"
    /\ Screen = "question"
    /\ Len(hazards) = 3
    /\ hazardWeights # EmptyObject
    /\ exposureTypes = <<>>

\* the three required tables are fetched and read
C6_RequiredLoaded ==
    /\ pc \in {"rows", "expoFetch", "expoText"}
    /\ \A t \in Required : res[t] = "ok"

\* C6: once the three required tables are loaded the app is never stuck in
\* the loading state: while it is loading, a step of the load is possible,
\* whatever the exposure fetch does.
C6_ExposureCannotBlock ==
    (C6_RequiredLoaded /\ loading) => ENABLED NextLoad

\* C7: the scored list holds every loaded hazard once, ordered by normalised
\* descending, and hazards with equal normalised are in hazard-table order.
C7_SortedStable ==
    /\ Len(raw) > 0 => Len(raw) = Len(hazards)
    /\ \A k \in 1..Len(raw) : \E i \in 1..Len(raw) : raw[i].id = hazards[k].id
    /\ \A i, j \in 1..Len(raw) :
          i < j =>
            /\ raw[i].normalised >= raw[j].normalised
            /\ raw[i].normalised = raw[j].normalised =>
                  HazardPos(raw[i].id) < HazardPos(raw[j].id)

C7_Witness ==
    /\ Len(raw) = 3
    /\ raw[1].id = "H3"
    /\ raw[2].id = "H1"
    /\ raw[3].id = "H2"
    /\ raw[1].normalised > raw[2].normalised
    /\ raw[2].normalised = raw[3].normalised
    /\ raw[2].normalised > 0

C8_Monotonic ==
    \A i, j \in 1..Len(raw) :
        raw[i].rawScore >= raw[j].rawScore => raw[i].normalised >= raw[j].normalised

\* C8 as stated: normalised is monotonic with rawScore, and the output order
\* is non-increasing in rawScore.
C8_OrderByRawScore ==
    /\ C8_Monotonic
    /\ \A i, j \in 1..Len(raw) : i < j => raw[i].rawScore >= raw[j].rawScore

\* C8 as amended: normalised is monotonic with rawScore (so equal rawScores
\* give equal normalised), and the output order is decreasing in rawScore
\* between hazards whose normalised values differ.
C8_MonotonicOrder ==
    /\ C8_Monotonic
    /\ \A i, j \in 1..Len(raw) :
          (i < j /\ raw[i].normalised # raw[j].normalised) =>
              raw[i].rawScore > raw[j].rawScore

\* two different rawScores round to the same normalised, and the smaller one
\* comes first
C8_Witness ==
    \E i, j \in 1..Len(raw) :
        /\ i < j
        /\ raw[i].rawScore < raw[j].rawScore
        /\ raw[i].normalised = raw[j].normalised
        /\ raw[1].normalised = 100

\* the trimmed, upper-cased text of the argument
C9_Canonical == ToUpperCase(Trim(JsString(letterIn)))

\* C9: the result is the result for the trimmed, upper-cased input, and is 0
\* when that is none of A..E; every call returns a number.
C9_CaseAndTrimInsensitive ==
    letterOut # <<>> =>
        /\ letterOut[1] \in Nat
        /\ letterOut[1] = letterToPriority(C9_Canonical)
        /\ C9_Canonical \notin {<<"A">>, <<"B">>, <<"C">>, <<"D">>, <<"E">>} =>
              letterOut[1] = 0

C9_Witness ==
    /\ letterIn = <<" ", "d", "\t">>
    /\ letterOut = <<5>>

\* the priority of text n when n is one of A..E, else 0
C10_Table(n) ==
    IF n = <<"A">> THEN 0
    ELSE IF n = <<"B">> THEN 1
    ELSE IF n = <<"C">> THEN 3
    ELSE IF n = <<"D">> \/ n = <<"E">> THEN 5
    ELSE 0

\* C10 as stated: A, B, C, D, E map to 0, 1, 3, 5, 5 and every other input,
\* lower-case letters and whitespace included, maps to 0.
C10_ExactLettersOnly ==
    letterOut # <<>> => letterOut[1] = C10_Table(letterIn)

\* C10 as amended: the input is trimmed and upper-cased first; A, B, C, D, E
\* then map to 0, 1, 3, 5, 5 and every other text maps to 0.
C10_TableAfterTrimUpper ==
    letterOut # <<>> =>
        letterOut[1] = C10_Table(ToUpperCase(Trim(JsString(letterIn))))

C10_Witness ==
    /\ letterIn = <<"e", " ">>
    /\ letterOut = <<5>>

\* the weight a named profile gives a category: the listed weight, else
\* defaultForOthers
C11_Weight(key, category) ==
    IF category \in DOMAIN PROFILES[key].categoryWeights
    THEN PROFILES[key].categoryWeights[category]
    ELSE PROFILES[key].defaultForOthers

\* C11: getProfileMultiplier(profileKey, category) returns 1 for "all" and
\* for every unknown profile key, whatever the category; for a named profile
\* it returns the listed weight of the category, else defaultForOthers.
C11_ProfileMultiplier ==
    profileOut # <<>> =>
        LET key == profileIn[1]
            category == profileIn[2]
        IN  profileOut[1] =
                Number(IF key = "all" \/ key \notin DOMAIN PROFILES THEN 1
                       ELSE C11_Weight(key, category))

\* every relevance entry of hazard id has a category that profile key does
\* not list
C12_AllOutside(id, key) ==
    \A j \in 1..Len(WeightsOf(hazardWeights, id)) :
        CategoryOf(attributes, WeightsOf(hazardWeights, id)[j].attrId)
            \notin DOMAIN PROFILES[key].categoryWeights

\* C12: when profileKey changes from "all" to a named profile, answers and
\* relevance data staying as they are, a hazard whose contributing attributes
\* all have categories the profile does not list gets rawScore 0, which is
\* not more than its rawScore before.
C12_ProfileNeverIncreases ==
    [][ ( /\ Screen = "results"
          /\ profileKey = "all"
          /\ profileKey' \in ProfileKeys \ {"all"}
          /\ answers' = answers
          /\ hazardWeights' = hazardWeights )
        => \A i \in 1..Len(raw), j \in 1..Len(raw') :
              (raw'[j].id = raw[i].id /\ C12_AllOutside(raw[i].id, profileKey'))
              => /\ raw'[j].rawScore = 0
                 /\ raw'[j].rawScore <= raw[i].rawScore ]_vars

C12_Witness ==
    /\ profileKey \in ProfileKeys \ {"all"}
    /\ \E i \in 1..Len(raw) :
          /\ WeightsOf(hazardWeights, raw[i].id) # <<>>
          /\ C12_AllOutside(raw[i].id, profileKey)
          /\ TotalFrom(WeightsOf(hazardWeights, raw[i].id), 1, answers,
                       attributes, "all") > 0
          /\ raw[i].rawScore = 0

\* the numeric cells of a row for a column prefix, by level
C13_NumericLevels(row, prefix) ==
    {lvl \in 1..5 : Cell(row, prefix, lvl) \in {"0", "1", "2", "3", "4", "5",
                                                "6", "7", "8", "9"}}

C13_Count(row, prefix, lvl) ==
    CHOOSE n \in 0..9 : ToString(n) = Cell(row, prefix, lvl)

RECURSIVE C13_SumOver(_, _, _)
C13_SumOver(row, prefix, lvls) ==
    IF lvls = {} THEN 0
    ELSE LET lvl == CHOOSE x \in lvls : TRUE
         IN  lvl * C13_Count(row, prefix, lvl)
             + C13_SumOver(row, prefix, lvls \ {lvl})

\* sum of level x count over the numeric cells
C13_Sum(row, prefix) == C13_SumOver(row, prefix, C13_NumericLevels(row, prefix))

C13_Prefix(m) == IF m = "All assets" THEN "" ELSE m

C13_Categories == {"All assets", "Lands", "Personnel", "Buildings"}

C13_Stored(code, m) ==
    /\ code \in DOMAIN exposureOut[1].exposureMap
    /\ m \in DOMAIN exposureOut[1].exposureMap[code]

C13_Kept(row) == {m \in C13_Categories : C13_Sum(row, C13_Prefix(m)) > 0}

\* the rows that set the entry of a hazard code
C13_RowsOf(code) ==
    {i \in 1..Len(exposureIn) :
        exposureIn[i].Code = code /\ C13_Kept(exposureIn[i]) # {}}

C14_Active ==
    IF exposureTypes = <<>> THEN <<>>
    ELSE IF exposureType # "" THEN <<exposureType>> ELSE <<exposureTypes[1]>>

C14_Stored(id) ==
    /\ C14_Active # <<>>
    /\ id \in DOMAIN exposures
    /\ C14_Active[1] \in DOMAIN exposures[id]

C14_Values == {exposures[raw[i].id][C14_Active[1]] :
                  i \in {k \in 1..Len(raw) : C14_Stored(raw[k].id)}}

C14_Max ==
    IF C14_Values = {} THEN 0
    ELSE CHOOSE v \in C14_Values : \A w \in C14_Values : w <= v

\* C14: with maxExposure the largest stored index of the active category
\* among the scored hazards (0 if none): if it is 0 every exposureRaw and
\* exposureNorm is null; otherwise a hazard with a stored index v has
\* exposureRaw = v and exposureNorm = v / maxExposure * 100, which lies in
\* (0, 100] and is 100 for some hazard, and a hazard without one has null.
C14_ExposureNormalised ==
    /\ \A i \in 1..Len(raw) :
          IF C14_Max > 0 /\ C14_Stored(raw[i].id)
          THEN LET v == exposures[raw[i].id][C14_Active[1]]
               IN  /\ raw[i].exposureRaw = <<v>>
                   /\ raw[i].exposureNorm = <<v * 100, C14_Max>>
                   /\ 0 < v * 100
                   /\ v * 100 <= 100 * C14_Max
          ELSE /\ raw[i].exposureRaw = <<>>
               /\ raw[i].exposureNorm = <<>>
    /\ (raw # <<>> /\ C14_Max > 0) =>
          \E i \in 1..Len(raw) :
              /\ raw[i].exposureNorm # <<>>
              /\ raw[i].exposureNorm[1] = 100 * raw[i].exposureNorm[2]

\* Lands: H1 has 14 and H2 has 6 (HX, which is not a hazard, has 45)
C14_Witness ==
    /\ exposureType = "Lands"
    /\ Len(raw) = 3
    /\ \E i, j, k \in 1..Len(raw) :
          /\ raw[i].id = "H1" /\ raw[i].exposureNorm = <<1400, 14>>
          /\ raw[j].id = "H2" /\ raw[j].exposureNorm = <<600, 14>>
          /\ raw[k].id = "H3" /\ raw[k].exposureRaw = <<>>

RECURSIVE C15_SumFrom(_, _)
C15_SumFrom(rows, i) ==
    IF i > Len(rows) THEN 0
    ELSE rows[i].contribution + C15_SumFrom(rows, i + 1)

C15_Rows(id) ==
    HazardBreakdown(attributes, answers, WeightsOf(hazardWeights, id))

\* C15: the breakdown of a hazard has one row per relevance entry, with
\* contribution = userImportance * priority (userImportance 3 when there is
\* no answer), the rows are in descending order of contribution, and the
\* contributions add up to the hazard's rawScore under profile "all" and to
\* no less than its rawScore under the selected profile.
C15_BreakdownReconstructs ==
    \A i \in 1..Len(raw) :
        LET rows == C15_Rows(raw[i].id)
            entries == WeightsOf(hazardWeights, raw[i].id)
        IN  /\ Len(rows) = Len(entries)
            /\ \A e \in 1..Len(entries) :
                  \E r \in 1..Len(rows) :
                      /\ rows[r].attrId = entries[e].attrId
                      /\ rows[r].contribution =
                            (IF entries[e].attrId \in DOMAIN answers
                             THEN answers[entries[e].attrId] ELSE 3)
                            * entries[e].priority
            /\ \A r \in 1..(Len(rows) - 1) :
                  rows[r].contribution >= rows[r + 1].contribution
            /\ C15_SumFrom(rows, 1) =
                  TotalFrom(entries, 1, answers, attributes, "all")
            /\ profileKey = "all" => C15_SumFrom(rows, 1) = raw[i].rawScore
            /\ C15_SumFrom(rows, 1) >= raw[i].rawScore

\* a hazard whose two entries are listed in the other order than they were
\* loaded, under a profile that drops one of them
C15_Witness ==
    /\ profileKey = "people"
    /\ \E i \in 1..Len(raw) :
          LET rows == C15_Rows(raw[i].id)
              entries == WeightsOf(hazardWeights, raw[i].id)
          IN  /\ Len(rows) = 2
              /\ rows[1].attrId = entries[2].attrId
              /\ rows[1].contribution > rows[2].contribution
              /\ rows[2].contribution > 0
              /\ rows[2].userImp # 3
              /\ C15_SumFrom(rows, 1) > raw[i].rawScore
              /\ raw[i].rawScore > 0

\* C16: a file that exportCsv hands over has exactly one data row per loaded
\* hazard, in the order of the sorted list and with ranks 1..n, whether the
\* top-10 filter is on or not; toggling the filter changes the visible list
\* only.
C16_ExportAllRows ==
    [][ /\ download' # download =>
              LET rows == download'[1].rows
              IN  /\ Len(rows) = Len(hazards)
                  /\ Len(rows) = Len(raw)
                  /\ \A i \in 1..Len(rows) :
                        /\ rows[i].rank = i
                        /\ rows[i].code = raw[i].code
                        /\ rows[i].score = raw[i].normalised
                        /\ rows[i].band = raw[i].band
                  /\ \A k \in 1..Len(hazards) :
                        Cardinality({i \in 1..Len(rows) :
                                        rows[i].code = hazards[k].code}) = 1
        /\ (showTop10' # showTop10 /\ index' = index /\ total > 0) =>
              /\ UNCHANGED <<appVars, profileKey, exposureType, raw, expanded,
                             download>>
              /\ Visible(raw', showTop10') =
                    IF showTop10' THEN SubSeq(raw, 1, TopN) ELSE raw ]_vars

\* the filter hides a hazard that the exported file holds
C16_Witness ==
    /\ showTop10
    /\ Len(Visible(raw, showTop10)) = TopN
    /\ download # <<>>
    /\ Len(download[1].rows) = TopN + 1
    /\ \A i \in 1..Len(raw) : download[1].rows[i].code = raw[i].code
    /\ raw[1].id # hazards[1].id

\* C20: selecting a profile or an exposure metric, toggling the top-10
\* filter and expanding a breakdown leave answers, relevance table,
\* attributes, hazards and exposure map as they are; the scored list is the
\* scoring engine's result for these and the selected profile and metric,
\* and it is the same list when profile and metric are the same.
C20_ResultsReadOnly ==
    [][ ( \/ \E key \in ProfileKeys : setProfileKey(key)
          \/ \E t \in {"All assets", "Lands", "Personnel", "Buildings"} :
                setExposureType(t)
          \/ setShowTop10
          \/ \E id \in ExpandIds : toggleExpand(id) )
        => /\ UNCHANGED <<answers, hazardWeights, attributes, hazards,
                          exposures, exposureTypes, index>>
           /\ raw' = FinalResults(attributes, hazards, answers, hazardWeights,
                                  exposures, exposureTypes, profileKey',
                                  exposureType')
           /\ (profileKey' = profileKey /\ exposureType' = exposureType)
                 => raw' = raw ]_vars

\* answers were given, a profile that reorders the list and a metric are
\* selected, the filter is on and a breakdown is open
C20_Witness ==
    /\ Screen = "results"
    /\ \E a \in DOMAIN answers : answers[a] # 3
    /\ profileKey = "people"
    /\ exposureType = "Lands"
    /\ showTop10
    /\ \E id \in DOMAIN expanded : expanded[id]
    /\ \A i \in 1..Len(raw) : raw[i].rawScore = 0

C18_AppendOnly ==
    [][ /\ (pc = "rows" /\ pc' = "rows") =>
              \A h \in DOMAIN weightMap :
                  /\ h \in DOMAIN weightMap'
                  /\ Len(weightMap'[h]) >= Len(weightMap[h])
                  /\ \A j \in 1..Len(weightMap[h]) :
                        weightMap'[h][j] = weightMap[h][j]
        /\ pc = "done" => hazardWeights' = hazardWeights ]_vars

C19_Ids == {attributes[i].id : i \in 1..Len(attributes)}

\* C19: the answers map holds one value per answered attribute, an integer
\* in 1..5; setImportance(a, v) sets a's answer and leaves the others;
\* next() records 3 for the current attribute only if it has no answer, and
\* leaves every answer already given; back() leaves the map as it is.
C19_AnswersMap ==
    /\ [](\A a \in DOMAIN answers : a \in C19_Ids /\ answers[a] \in 1..5)
    /\ [][ /\ \A a \in C19_Ids, v \in 1..5 :
                setImportance(a, v) =>
                    /\ DOMAIN answers' = DOMAIN answers \cup {a}
                    /\ answers'[a] = v
                    /\ \A b \in DOMAIN answers \ {a} : answers'[b] = answers[b]
           /\ next =>
                    /\ DOMAIN answers' = DOMAIN answers \cup {current.id}
                    /\ \A b \in DOMAIN answers : answers'[b] = answers[b]
                    /\ current.id \notin DOMAIN answers => answers'[current.id] = 3
           /\ back => answers' = answers
           /\ restart => answers' = EmptyObject ]_vars

\* an answer of 5 was given, went back to and kept; the next attribute got
\* the default
C19_Witness ==
    /\ fixture = "ranking"
    /\ Screen = "results"
    /\ DOMAIN answers = {"A1", "A2"}
    /\ answers["A1"] = 5
    /\ answers["A2"] = 3

\* C21: after the load, 0 <= index <= total; every attribute at a position
\* below index has a recorded answer, so on the results screen every
\* attribute has one; restart returns to index 0 with an empty answers map.
C21_IndexInvariant ==
    /\ [](/\ 0 <= index
          /\ index <= total
          /\ \A i \in 1..index : attributes[i].id \in DOMAIN answers
          /\ Screen = "results" =>
                \A i \in 1..total : attributes[i].id \in DOMAIN answers)
    /\ [][restart => (index' = 0 /\ answers' = EmptyObject)]_vars

\* the second question is shown again after both were answered, the first
\* one by the default of next()
C21_Witness ==
    /\ fixture = "ranking"
    /\ Screen = "question"
    /\ index = 1
    /\ DOMAIN answers = {"A1", "A2"}
    /\ answers["A1"] = 3
    /\ answers["A2"] = 4

====
